---- MODULE Spec2Model ----
(***************************************************************************)
(* authlib/integrations/httpx_client/oauth1_client.py                      *)
(*                                                                         *)
(* OAuth1Auth.auth_flow (the request signer), AsyncOAuth1Client and        *)
(* OAuth1Client (the handshake clients) over an httpx transport.           *)
(*                                                                         *)
(* A call that suspends on the transport is modelled in two steps: the     *)
(* part that runs up to the suspension (the request is signed and handed   *)
(* to the transport) and the part that runs when the transport answers.    *)
(* The base class authlib.oauth1.client.OAuth1Client, ClientAuth.prepare   *)
(* and the response parser are imported by the file and are modelled from  *)
(* the specification (sections 4.1, 4.2, 4.4 and 7).                       *)
(***************************************************************************)
EXTENDS Integers, Sequences, FiniteSets, TLC

VARIABLES
    clients,    \* mode -> the client object: its auth fields and its calls in progress
    hist        \* mode -> history of that client (what was observed at call boundaries)

vars == <<clients, hist>>

-----------------------------------------------------------------------------
(* Values *)

\* Python's None
NoneV == "<None>"

\* Truth value of an Optional[str]: None and "" are both false
Truthy(x) == x # NoneV /\ x # ""

Modes == {"async", "sync"}

SIGNATURE_HMAC_SHA1 == "HMAC-SHA1"
\* the signature methods the signer has an implementation for
SignatureMethods == {SIGNATURE_HMAC_SHA1}
SIGNATURE_TYPE_HEADER == "HEADER"
SIGNATURE_TYPE_QUERY == "QUERY"
SIGNATURE_TYPE_BODY == "BODY"
SignatureTypes == {SIGNATURE_TYPE_HEADER, SIGNATURE_TYPE_QUERY, SIGNATURE_TYPE_BODY}

CONTENT_TYPE_FORM_URLENCODED == "application/x-www-form-urlencoded"

\* error kinds
MissingVerifier == "missing_verifier"
MissingToken == "missing_token"
MissingCredential == "missing_credential"
RemoteOAuthError == "remote_oauth_error"
TransportError == "transport_error"
InvalidSignatureMethod == "invalid_signature_method"

\* raise OAuthError(error_type, error_description)
handle_error(error_type, error_description) ==
    [error |-> error_type, description |-> error_description]

\* no exception
NoError == [error |-> NoneV, description |-> ""]
Raised(e) == e.error # NoneV

\* no request object, no OAuth parameters
NoHeaders == [ContentType |-> NoneV, ContentLength |-> NoneV, Authorization |-> NoneV]
NoRequest == [method |-> NoneV, url |-> NoneV, headers |-> NoHeaders, content |-> ""]
NoOAuth ==
    [oauth_consumer_key |-> NoneV, oauth_token |-> NoneV, oauth_verifier |-> NoneV,
     oauth_nonce |-> NoneV, key |-> NoneV, oauth_signature |-> NoneV]

-----------------------------------------------------------------------------
(* Inputs the environment draws from *)

\* values the random nonce source can produce
Nonces == {"n1"}

\* verifier arguments of fetch_access_token: absent, empty, a verifier
VerifierArgs == {NoneV, "", "v1"}

\* endpoints
RequestTokenUrl == "https://ex.com/request"
AccessTokenUrl == "https://ex.com/access"
ApiUrl == "https://ex.com/api"

\* response bodies: sequences of form-encoded chunks, <<key, value>> for
\* "key=value"; a chunk <<text>> carries no "="
ResponseTexts ==
    { << <<"oauth_token", "rt">>, <<"oauth_token_secret", "rts">>,
         <<"oauth_callback_confirmed", "true">> >>,
      << <<"oauth_token", "at">>, <<"oauth_token_secret", "ats">> >>,
      << <<"oauth_token", "rt">> >>,
      << <<"oauth_token_secret", "rts">> >>,
      << <<"error", "denied">>, <<"error_description", "no such token">> >>,
      << <<"<html>oops</html>">> >> }

\* what a failing endpoint answers with
FailureTexts ==
    { << <<"oauth_token", "at">>, <<"oauth_token_secret", "ats">> >>,
      << <<"error", "denied">>, <<"error_description", "no such token">> >> }

\* the exceptions a transport raises instead of answering: a timeout, and
\* the cancellation of the awaiting task
TransportErrors ==
    {[error |-> TransportError, description |-> "ReadTimeout"],
     [error |-> TransportError, description |-> "CancelledError"]}

\* what the transport does with a request: answers, or raises
Outcomes ==
    [kind : {"response"}, status_code : {200}, text : ResponseTexts,
     exception : {NoError}]
        \cup [kind : {"response"}, status_code : {401}, text : FailureTexts,
              exception : {NoError}]
        \cup [kind : {"raise"}, status_code : {0}, text : {<<>>},
              exception : TransportErrors]

\* requests the application issues through the client
ApiRequests ==
    { [method |-> "GET", url |-> ApiUrl,
       headers |-> NoHeaders, content |-> ""],
      [method |-> "POST", url |-> ApiUrl,
       headers |-> [ContentType |-> CONTENT_TYPE_FORM_URLENCODED, ContentLength |-> "3",
                    Authorization |-> NoneV],
       content |-> "a=1"] }

-----------------------------------------------------------------------------
(* Signature Engine and Authorization Builder: ClientAuth.prepare          *)

\* values the clock can show when a request is signed
Timestamps == {"1700000000"}

\* the random and clock inputs of one signing
Entropy == [nonce : Nonces, timestamp : Timestamps]

RECURSIVE JoinPairs(_, _, _, _)
\* k1<eq><q>v1<q><sep>k2<eq><q>v2<q>...
JoinPairs(pairs, eq, q, sep) ==
    IF pairs = <<>> THEN ""
    ELSE pairs[1][1] \o eq \o q \o pairs[1][2] \o q
         \o (IF Len(pairs) = 1 THEN "" ELSE sep \o JoinPairs(Tail(pairs), eq, q, sep))

\* the oauth_* protocol parameters but the signature, in key order
OAuthParams(auth, rnd) ==
    << <<"oauth_consumer_key", auth.client_id>>,
       <<"oauth_nonce", rnd.nonce>>,
       <<"oauth_signature_method", auth.signature_method>>,
       <<"oauth_timestamp", rnd.timestamp>> >>
    \o (IF Truthy(auth.token) THEN << <<"oauth_token", auth.token>> >> ELSE <<>>)
    \o (IF Truthy(auth.verifier) THEN << <<"oauth_verifier", auth.verifier>> >> ELSE <<>>)
    \o << <<"oauth_version", "1.0">> >>

\* key = client_secret & token_secret_or_empty
SigningKey(auth) ==
    auth.client_secret \o "&" \o (IF Truthy(auth.token_secret) THEN auth.token_secret ELSE "")

\* METHOD & base_url & parameter_string; the form body is part of the
\* parameters only when the request is form-encoded
BaseString(method, uri, headers, body, params) ==
    method \o "&" \o uri \o "&"
    \o (IF headers.ContentType = CONTENT_TYPE_FORM_URLENCODED /\ body # ""
        THEN body \o "&" ELSE "")
    \o JoinPairs(params, "=", "", "&")

\* HMAC-SHA1 of the base string under the key, kept symbolic
ComputeSignature(key, base_string) == "HMAC-SHA1(" \o key \o "," \o base_string \o ")"

\* ClientAuth.prepare(method, uri, headers, body): the signed (uri, headers, body),
\* or the error signing fails with. The headers it returns are a new mapping.
prepare(auth, method, uri, headers, body, rnd) ==
    IF auth.signature_method \notin SignatureMethods
    THEN [raised |-> handle_error(InvalidSignatureMethod, "Invalid signature method."),
          url |-> uri, headers |-> headers, body |-> body, oauth |-> NoOAuth,
          same_headers |-> FALSE]
    ELSE IF auth.client_secret = NoneV
    THEN [raised |-> handle_error(MissingCredential, "missing client secret"),
          url |-> uri, headers |-> headers, body |-> body, oauth |-> NoOAuth,
          same_headers |-> FALSE]
    ELSE
    LET params == OAuthParams(auth, rnd)
        signature == ComputeSignature(SigningKey(auth),
                                      BaseString(method, uri, headers, body, params))
        all == params \o << <<"oauth_signature", signature>> >>
        oauth == [oauth_consumer_key |-> auth.client_id,
                  oauth_token |-> IF Truthy(auth.token) THEN auth.token ELSE NoneV,
                  oauth_verifier |-> IF Truthy(auth.verifier) THEN auth.verifier ELSE NoneV,
                  oauth_nonce |-> rnd.nonce,
                  key |-> SigningKey(auth),
                  oauth_signature |-> signature]
    IN  CASE auth.signature_type = SIGNATURE_TYPE_HEADER ->
               [raised |-> NoError, url |-> uri,
                headers |-> [headers EXCEPT
                               !.Authorization = "OAuth " \o JoinPairs(all, "=", "\"", ", ")],
                body |-> body, oauth |-> oauth, same_headers |-> FALSE]
          [] auth.signature_type = SIGNATURE_TYPE_QUERY ->
               [raised |-> NoError, url |-> uri \o "?" \o JoinPairs(all, "=", "", "&"),
                headers |-> headers, body |-> body, oauth |-> oauth, same_headers |-> FALSE]
          [] OTHER ->
               [raised |-> NoError, url |-> uri,
                headers |-> [headers EXCEPT !.ContentType = CONTENT_TYPE_FORM_URLENCODED],
                body |-> (IF body = "" THEN "" ELSE body \o "&") \o JoinPairs(all, "=", "", "&"),
                oauth |-> oauth, same_headers |-> FALSE]

\* utils.build_request(url, headers, body, initial_request): a new Request
build_request(url, headers, body, initial_request) ==
    [method |-> initial_request.method, url |-> url, headers |-> headers, content |-> body]

-----------------------------------------------------------------------------
(* OAuth1Auth.auth_flow: the request signer, a generator                   *)

\* auth_flow writing the signed headers into the caller's request object
auth_flow_mutates_request(auth, request, rnd) ==
    LET p == prepare(auth, request.method, request.url, request.headers,
                     request.content, rnd)
        headers == [p.headers EXCEPT !.ContentLength = ToString(Len(p.body))]
    IN  IF Raised(p.raised)
        THEN [raised |-> p.raised, yielded |-> NoRequest, oauth |-> NoOAuth,
              request |-> request, auth |-> auth]
        ELSE [raised |-> NoError,
              yielded |-> build_request(p.url, headers, p.body, request),
              oauth |-> p.oauth,
              request |-> [request EXCEPT !.headers = headers],
              auth |-> auth]

\* auth_flow going on with the caller's request when prepare raises
auth_flow_yields_unsigned(auth, request, rnd) ==
    LET p == prepare(auth, request.method, request.url, request.headers,
                     request.content, rnd)
        headers == [p.headers EXCEPT !.ContentLength = ToString(Len(p.body))]
    IN  [raised |-> NoError,
         yielded |-> build_request(p.url, headers, p.body, request),
         oauth |-> p.oauth,
         request |-> request,
         auth |-> auth]

\* auth_flow leaving the Content-Length of the caller's body in the headers
auth_flow_stale_content_length(auth, request, rnd) ==
    LET p == prepare(auth, request.method, request.url, request.headers,
                     request.content, rnd)
        headers == [p.headers EXCEPT !.ContentLength = ToString(Len(request.content))]
    IN  IF Raised(p.raised)
        THEN [raised |-> p.raised, yielded |-> NoRequest, oauth |-> NoOAuth,
              request |-> request, auth |-> auth]
        ELSE [raised |-> NoError,
              yielded |-> build_request(p.url, headers, p.body, request),
              oauth |-> p.oauth,
              request |-> request,
              auth |-> auth]

\* First resumption of the generator (lines 25-31, up to the yield).
\* yielded: the signed request, or NoRequest when prepare raised;
\* request: the caller's request object as the generator leaves it.
auth_flow(auth, request, rnd) ==
    LET p == prepare(auth, request.method, request.url, request.headers,
                     request.content, rnd)
        headers == [p.headers EXCEPT !.ContentLength = ToString(Len(p.body))]
    IN  IF Raised(p.raised)
        THEN [raised |-> p.raised, yielded |-> NoRequest, oauth |-> NoOAuth,
              request |-> request, auth |-> auth]
        ELSE [raised |-> NoError,
              yielded |-> build_request(p.url, headers, p.body, request),
              oauth |-> p.oauth,
              request |-> IF p.same_headers
                          THEN [request EXCEPT !.headers = headers] ELSE request,
              auth |-> auth]

\* auth_flow signing and yielding the request again when the answer is a 401
auth_flow_send_resigns(auth, request, response) ==
    LET again == auth_flow(auth, request, [nonce |-> "n1", timestamp |-> "1700000000"])
    IN  IF response.status_code = 401
        THEN [yielded |-> again.yielded, oauth |-> again.oauth,
              request |-> request, auth |-> auth]
        ELSE [yielded |-> NoRequest, oauth |-> NoOAuth, request |-> request, auth |-> auth]

\* The generator resumed with the response to the request it yielded: the
\* body ends after the yield, so it yields nothing more and finishes.
auth_flow_send(auth, request, response) ==
    [yielded |-> NoRequest, oauth |-> NoOAuth, request |-> request, auth |-> auth]

-----------------------------------------------------------------------------
(* The client object and its calls in progress                             *)

NoToken ==
    [oauth_token |-> NoneV, oauth_token_secret |-> NoneV, error |-> NoneV,
     error_description |-> NoneV]
NoResponse == [kind |-> "none", status_code |-> 0, text |-> <<>>, exception |-> NoError]

\* A call frame. pc: "idle" (never called), "awaiting" (suspended on the
\* transport), "returned", "raised".  gen: the state of the auth_flow
\* generator of the call's request.
IdleCall ==
    [op |-> "none", pc |-> "idle", verifier_arg |-> NoneV,
     gen |-> "none", yields |-> 0, nsent |-> 0,
     request |-> NoRequest, wire |-> NoRequest, oauth |-> NoOAuth,
     response |-> NoResponse, raised |-> NoError, token |-> NoToken]

\* authlib.oauth1.client.OAuth1Client.__init__: self.auth = auth_class(...)
OAuth1Client_base_init(args) ==
    [client_id |-> args.client_id, client_secret |-> args.client_secret,
     token |-> args.token, token_secret |-> args.token_secret,
     verifier |-> args.verifier, signature_method |-> args.signature_method,
     signature_type |-> args.signature_type]

\* utils.extract_client_kwargs(kwargs): the keywords meant for the httpx client
extract_client_kwargs(kwargs) == [verify |-> kwargs.verify, app |-> kwargs.app]

\* AsyncOAuth1Client.__init__: http is what httpx.AsyncClient.__init__ is given
AsyncOAuth1Client_init(args) ==
    LET client_kwargs == [extract_client_kwargs(args.kwargs) EXCEPT !.verify = "False"]
    IN  [mode |-> "async",
         http |-> [verify |-> client_kwargs.verify, app |-> client_kwargs.app,
                   transport |-> NoneV],
         auth |-> OAuth1Client_base_init(args),
         handshake |-> IdleCall, api |-> IdleCall]

\* OAuth1Client.__init__: http is what httpx.Client.__init__ is given
OAuth1Client_init(args) ==
    LET client_kwargs == [extract_client_kwargs(args.kwargs) EXCEPT !.verify = "False"]
        app_value == client_kwargs.app
    IN  [mode |-> "sync",
         http |-> [verify |-> client_kwargs.verify, app |-> NoneV,
                   transport |-> IF app_value # NoneV
                                 THEN "WSGITransport(" \o app_value \o ")" ELSE NoneV],
         auth |-> OAuth1Client_base_init(args),
         handshake |-> IdleCall, api |-> IdleCall]

-----------------------------------------------------------------------------
(* httpx's request pipeline around the signer (Client._send_handling_auth) *)

\* self.post(url): the request the client builds for a token endpoint
PostRequest(url) == [method |-> "POST", url |-> url, headers |-> NoHeaders, content |-> ""]

\* The pipeline up to its first suspension: the generator is started and
\* the request it yields is handed to the transport.
send_start(c, f, op, verifier_arg, request, rnd) ==
    LET g == auth_flow(c.auth, request, rnd)
        frame == [IdleCall EXCEPT !.op = op, !.verifier_arg = verifier_arg]
    IN  [c EXCEPT
           !.auth = g.auth,
           ![f] = IF Raised(g.raised)
                  THEN [frame EXCEPT !.pc = "raised", !.raised = g.raised,
                                     !.gen = "finished", !.request = g.request]
                  ELSE [frame EXCEPT !.pc = "awaiting", !.gen = "suspended",
                                     !.yields = 1, !.nsent = 1,
                                     !.request = g.request, !.wire = g.yielded,
                                     !.oauth = g.oauth]]

\* The transport has answered (or raised): the response is sent into the
\* generator; a request it yields is sent next, otherwise the response is
\* the call's. pc "responded" is the caller about to continue.
send_resume(c, f, outcome) ==
    IF outcome.kind = "raise"
    THEN [c EXCEPT ![f].pc = "raised", ![f].gen = "finished",
                   ![f].raised = outcome.exception]
    ELSE LET g == auth_flow_send(c.auth, c[f].request, outcome)
         IN  IF g.yielded = NoRequest
             THEN [c EXCEPT !.auth = g.auth, ![f].gen = "finished",
                            ![f].request = g.request,
                            ![f].response = outcome, ![f].pc = "responded"]
             ELSE [c EXCEPT !.auth = g.auth, ![f].request = g.request,
                            ![f].wire = g.yielded, ![f].oauth = g.oauth,
                            ![f].yields = c[f].yields + 1,
                            ![f].nsent = c[f].nsent + 1]

\* client.request(...) issued by the application, up to the suspension
request(c, req, rnd) == send_start(c, "api", "request", NoneV, req, rnd)

\* ... and once the transport has answered
request_return(c, outcome) ==
    LET c1 == send_resume(c, "api", outcome)
    IN  IF c1.api.pc = "responded" THEN [c1 EXCEPT !.api.pc = "returned"] ELSE c1

-----------------------------------------------------------------------------
(* Token responses                                                         *)

\* the value of key k in a form-encoded text, NoneV when absent
FormValue(text, k) ==
    IF \E i \in 1..Len(text) : Len(text[i]) = 2 /\ text[i][1] = k
    THEN text[CHOOSE i \in 1..Len(text) :
                 /\ Len(text[i]) = 2 /\ text[i][1] = k
                 /\ \A j \in (i+1)..Len(text) : ~(Len(text[j]) = 2 /\ text[j][1] = k)][2]
    ELSE NoneV

\* dict(url_decode(text)), over the keys the client reads
url_decode(text) ==
    [oauth_token |-> FormValue(text, "oauth_token"),
     oauth_token_secret |-> FormValue(text, "oauth_token_secret"),
     error |-> FormValue(text, "error"),
     error_description |-> FormValue(text, "error_description")]

IsSuccess(status_code) == status_code >= 200 /\ status_code < 300

\* parse_response_token(status_code, text): the token dict, or the error raised
parse_response_token(status_code, text) ==
    LET token == url_decode(text)
        description == IF token.error_description # NoneV
                       THEN token.error_description ELSE "invalid token response"
    IN  IF ~IsSuccess(status_code) \/ token.error # NoneV
        THEN [raised |-> handle_error(RemoteOAuthError, description), token |-> NoToken]
        ELSE [raised |-> NoError, token |-> token]

\* self.token = token: both fields are required, then stored on the auth object
token_setter(auth, token) ==
    IF token.oauth_token = NoneV \/ token.oauth_token_secret = NoneV
    THEN [raised |-> handle_error(MissingToken, "invalid token response"), auth |-> auth]
    ELSE [raised |-> NoError,
          auth |-> [auth EXCEPT !.token = token.oauth_token,
                                !.token_secret = token.oauth_token_secret]]

-----------------------------------------------------------------------------
(* AsyncOAuth1Client: the handshake calls                                  *)

\* _fetch_token, line 93 up to the suspension in self.post(url)
fetch_token(c, op, verifier_arg, url, rnd) ==
    send_start(c, "handshake", op, verifier_arg, PostRequest(url), rnd)

\* _fetch_token assigning the response's fields without the token setter
fetch_token_return_unvalidated(c, outcome) ==
    LET c1 == send_resume(c, "handshake", outcome)
        resp == c1.handshake.response
        parsed == parse_response_token(resp.status_code, resp.text)
    IN  IF c1.handshake.pc # "responded" THEN c1
        ELSE IF Raised(parsed.raised)
        THEN [c1 EXCEPT !.handshake.pc = "raised", !.handshake.raised = parsed.raised]
        ELSE [c1 EXCEPT !.auth.token = parsed.token.oauth_token,
                        !.auth.token_secret = parsed.token.oauth_token_secret,
                        !.handshake.pc = "returned",
                        !.handshake.token = parsed.token]

\* _fetch_token parsing the body whatever the status code
fetch_token_return_ignores_status(c, outcome) ==
    LET c1 == send_resume(c, "handshake", outcome)
        resp == c1.handshake.response
        parsed == parse_response_token(200, resp.text)
        stored == token_setter(c1.auth, parsed.token)
    IN  IF c1.handshake.pc # "responded" THEN c1
        ELSE IF Raised(parsed.raised)
        THEN [c1 EXCEPT !.handshake.pc = "raised", !.handshake.raised = parsed.raised]
        ELSE IF Raised(stored.raised)
        THEN [c1 EXCEPT !.handshake.pc = "raised", !.handshake.raised = stored.raised]
        ELSE [c1 EXCEPT !.auth = stored.auth, !.handshake.pc = "returned",
                        !.handshake.token = parsed.token]

\* _fetch_token returning the token without assigning self.token
fetch_token_return_not_stored(c, outcome) ==
    LET c1 == send_resume(c, "handshake", outcome)
        resp == c1.handshake.response
        parsed == parse_response_token(resp.status_code, resp.text)
        stored == token_setter(c1.auth, parsed.token)
    IN  IF c1.handshake.pc # "responded" THEN c1
        ELSE IF Raised(parsed.raised)
        THEN [c1 EXCEPT !.handshake.pc = "raised", !.handshake.raised = parsed.raised]
        ELSE IF Raised(stored.raised)
        THEN [c1 EXCEPT !.handshake.pc = "raised", !.handshake.raised = stored.raised]
        ELSE [c1 EXCEPT !.handshake.pc = "returned", !.handshake.token = parsed.token]

\* _fetch_token keeping the secret it held
fetch_token_return_keeps_secret(c, outcome) ==
    LET c1 == send_resume(c, "handshake", outcome)
        resp == c1.handshake.response
        parsed == parse_response_token(resp.status_code, resp.text)
        stored == token_setter(c1.auth, parsed.token)
    IN  IF c1.handshake.pc # "responded" THEN c1
        ELSE IF Raised(parsed.raised)
        THEN [c1 EXCEPT !.handshake.pc = "raised", !.handshake.raised = parsed.raised]
        ELSE IF Raised(stored.raised)
        THEN [c1 EXCEPT !.handshake.pc = "raised", !.handshake.raised = stored.raised]
        ELSE [c1 EXCEPT !.auth.token = stored.auth.token, !.handshake.pc = "returned",
                        !.handshake.token = parsed.token]

\* _fetch_token posting the request once more when the first attempt failed
fetch_token_return_retries(c, outcome) ==
    LET c1 == send_resume(c, "handshake", outcome)
        resp == c1.handshake.response
        parsed == parse_response_token(resp.status_code, resp.text)
        stored == token_setter(c1.auth, parsed.token)
        failed == \/ c1.handshake.pc = "raised"
                  \/ c1.handshake.pc = "responded"
                     /\ (Raised(parsed.raised) \/ Raised(stored.raised))
    IN  IF failed /\ c.handshake.nsent < 2
        THEN [c EXCEPT !.handshake.nsent = c.handshake.nsent + 1]
        ELSE IF c1.handshake.pc # "responded" THEN c1
        ELSE IF Raised(parsed.raised)
        THEN [c1 EXCEPT !.handshake.pc = "raised", !.handshake.raised = parsed.raised]
        ELSE IF Raised(stored.raised)
        THEN [c1 EXCEPT !.handshake.pc = "raised", !.handshake.raised = stored.raised]
        ELSE [c1 EXCEPT !.auth = stored.auth, !.handshake.pc = "returned",
                        !.handshake.token = parsed.token]

\* _fetch_token assigning self.token from the body before the response is
\* checked
fetch_token_return_stores_first(c, outcome) ==
    LET c1 == send_resume(c, "handshake", outcome)
        resp == c1.handshake.response
        body == parse_response_token(200, resp.text)
        stored == token_setter(c1.auth, body.token)
        kept == IF Raised(body.raised) \/ Raised(stored.raised) THEN c1.auth ELSE stored.auth
        parsed == parse_response_token(resp.status_code, resp.text)
    IN  IF c1.handshake.pc # "responded" THEN c1
        ELSE IF Raised(parsed.raised)
        THEN [c1 EXCEPT !.auth = kept,
                        !.handshake.pc = "raised", !.handshake.raised = parsed.raised]
        ELSE IF Raised(stored.raised)
        THEN [c1 EXCEPT !.handshake.pc = "raised", !.handshake.raised = stored.raised]
        ELSE [c1 EXCEPT !.auth = stored.auth, !.handshake.pc = "returned",
                        !.handshake.token = parsed.token]

\* _fetch_token, lines 93-97 from the moment the transport answers
fetch_token_return(c, outcome) ==
    LET c1 == send_resume(c, "handshake", outcome)
        resp == c1.handshake.response
        parsed == parse_response_token(resp.status_code, resp.text)
        stored == token_setter(c1.auth, parsed.token)
    IN  IF c1.handshake.pc # "responded" THEN c1
        ELSE IF Raised(parsed.raised)
        THEN [c1 EXCEPT !.handshake.pc = "raised", !.handshake.raised = parsed.raised]
        ELSE IF Raised(stored.raised)
        THEN [c1 EXCEPT !.handshake.pc = "raised", !.handshake.raised = stored.raised]
        ELSE [c1 EXCEPT !.auth = stored.auth, !.handshake.pc = "returned",
                        !.handshake.token = parsed.token]

\* fetch_request_token(url), inherited: return self._fetch_token(url)
fetch_request_token(c, url, rnd) ==
    fetch_token(c, "fetch_request_token", NoneV, url, rnd)

fetch_request_token_return(c, outcome) == fetch_token_return(c, outcome)

\* fetch_access_token going on without a verifier
fetch_access_token_unchecked(c, verifier, url, rnd) ==
    LET c1 == IF Truthy(verifier) THEN [c EXCEPT !.auth.verifier = verifier] ELSE c
    IN  fetch_token(c1, "fetch_access_token", verifier, url, rnd)

\* fetch_access_token testing "verifier is not None" where it tests "verifier"
fetch_access_token_stores_empty(c, verifier, url, rnd) ==
    LET c1 == IF verifier # NoneV THEN [c EXCEPT !.auth.verifier = verifier] ELSE c
    IN  IF ~Truthy(c1.auth.verifier)
        THEN [c1 EXCEPT !.handshake =
                [IdleCall EXCEPT
                   !.op = "fetch_access_token", !.verifier_arg = verifier,
                   !.pc = "raised",
                   !.raised = handle_error(MissingVerifier, "Missing \"verifier\" value")]]
        ELSE fetch_token(c1, "fetch_access_token", verifier, url, rnd)

\* fetch_access_token taking the argument only when it holds no verifier
fetch_access_token_keeps_held(c, verifier, url, rnd) ==
    LET c1 == IF Truthy(verifier) /\ ~Truthy(c.auth.verifier)
              THEN [c EXCEPT !.auth.verifier = verifier] ELSE c
    IN  IF ~Truthy(c1.auth.verifier)
        THEN [c1 EXCEPT !.handshake =
                [IdleCall EXCEPT
                   !.op = "fetch_access_token", !.verifier_arg = verifier,
                   !.pc = "raised",
                   !.raised = handle_error(MissingVerifier, "Missing \"verifier\" value")]]
        ELSE fetch_token(c1, "fetch_access_token", verifier, url, rnd)

\* fetch_access_token(url, verifier), lines 84-88 up to the suspension
fetch_access_token(c, verifier, url, rnd) ==
    LET c1 == IF Truthy(verifier) THEN [c EXCEPT !.auth.verifier = verifier] ELSE c
    IN  IF ~Truthy(c1.auth.verifier)
        THEN [c1 EXCEPT !.handshake =
                [IdleCall EXCEPT
                   !.op = "fetch_access_token", !.verifier_arg = verifier,
                   !.pc = "raised",
                   !.raised = handle_error(MissingVerifier, "Missing \"verifier\" value")]]
        ELSE fetch_token(c1, "fetch_access_token", verifier, url, rnd)

\* fetch_access_token returning without clearing the verifier
fetch_access_token_return_keeps_verifier(c, outcome) == fetch_token_return(c, outcome)

\* fetch_access_token, lines 88-90 from the moment the transport answers
fetch_access_token_return(c, outcome) ==
    LET c1 == fetch_token_return(c, outcome)
    IN  IF c1.handshake.pc = "returned"
        THEN [c1 EXCEPT !.auth.verifier = NoneV]
        ELSE c1

-----------------------------------------------------------------------------
(* OAuth1Client: the handshake calls of the base class                     *)

\* signs and sends a request to the token endpoint
base_fetch_token(c, op, verifier_arg, url, rnd) ==
    send_start(c, "handshake", op, verifier_arg, PostRequest(url), rnd)

\* on success parses the response, requires oauth_token and
\* oauth_token_secret, stores them as the token credentials
base_fetch_token_return(c, outcome) ==
    LET c1 == send_resume(c, "handshake", outcome)
        resp == c1.handshake.response
        parsed == parse_response_token(resp.status_code, resp.text)
        stored == token_setter(c1.auth, parsed.token)
    IN  CASE c1.handshake.pc # "responded" -> c1
          [] c1.handshake.pc = "responded" /\ Raised(parsed.raised) ->
               [c1 EXCEPT !.handshake.pc = "raised", !.handshake.raised = parsed.raised]
          [] c1.handshake.pc = "responded" /\ ~Raised(parsed.raised)
                /\ Raised(stored.raised) ->
               [c1 EXCEPT !.handshake.pc = "raised", !.handshake.raised = stored.raised]
          [] OTHER ->
               [c1 EXCEPT !.auth = stored.auth, !.handshake.pc = "returned",
                          !.handshake.token = parsed.token]

base_fetch_request_token(c, url, rnd) ==
    base_fetch_token(c, "fetch_request_token", NoneV, url, rnd)

base_fetch_request_token_return(c, outcome) == base_fetch_token_return(c, outcome)

\* requires a verifier (passed in or already set), else MissingVerifier
base_fetch_access_token(c, verifier, url, rnd) ==
    LET held == IF Truthy(verifier) THEN verifier ELSE c.auth.verifier
    IN  IF Truthy(held)
        THEN base_fetch_token([c EXCEPT !.auth.verifier = held],
                              "fetch_access_token", verifier, url, rnd)
        ELSE [c EXCEPT !.handshake =
                [IdleCall EXCEPT
                   !.op = "fetch_access_token", !.verifier_arg = verifier,
                   !.pc = "raised",
                   !.raised = handle_error(MissingVerifier, "Missing \"verifier\" value")]]

\* on success replaces the token credentials and clears the verifier
base_fetch_access_token_return(c, outcome) ==
    LET c1 == base_fetch_token_return(c, outcome)
    IN  IF c1.handshake.pc = "returned"
        THEN [c1 EXCEPT !.auth.verifier = NoneV]
        ELSE c1

-----------------------------------------------------------------------------
(* Calls on a client of either class                                       *)

CallFetchRequestToken(c, rnd) ==
    IF c.mode = "async"
    THEN fetch_request_token(c, RequestTokenUrl, rnd)
    ELSE base_fetch_request_token(c, RequestTokenUrl, rnd)

CallFetchAccessToken(c, verifier, rnd) ==
    IF c.mode = "async"
    THEN fetch_access_token(c, verifier, AccessTokenUrl, rnd)
    ELSE base_fetch_access_token(c, verifier, AccessTokenUrl, rnd)

\* the suspended handshake call continues with the transport's outcome
ResumeHandshake(c, outcome) ==
    CASE c.mode = "async" /\ c.handshake.op = "fetch_access_token" ->
           fetch_access_token_return(c, outcome)
      [] c.mode = "async" /\ c.handshake.op # "fetch_access_token" ->
           fetch_request_token_return(c, outcome)
      [] c.mode = "sync" /\ c.handshake.op = "fetch_access_token" ->
           base_fetch_access_token_return(c, outcome)
      [] OTHER -> base_fetch_request_token_return(c, outcome)

-----------------------------------------------------------------------------
(* History of a client, recorded at the boundaries of its calls            *)

NoCredentials == [oauth_token |-> NoneV, oauth_token_secret |-> NoneV]

\* issued:  the token credentials the client was constructed with or that the
\*          last successful fetch received
\* before:  per call frame, the auth object and the caller's request object
\*          as they were when the call started
\* started: per call frame, the auth object when the call had run up to its
\*          suspension (its request signed and handed to the transport)
\* signed_under: per call frame, `issued` at the moment its request was signed
\* verifier_sent, verifier_done: the verifier instance the client holds has
\*          been sent in an access-token request / by one that returned
\* resend:  for the handshake call in progress or last finished, the two
\*          flags as they were when its request was signed
\* calls:   per call frame, how many calls were started
\* outcome: per call frame, what the transport did with the call's request
\* constructed: the token and token secret the client was constructed with
\* kwargs:  the keywords for the httpx client the constructor was called with
NewHistory(c, args) ==
    [issued |-> [oauth_token |-> c.auth.token, oauth_token_secret |-> c.auth.token_secret],
     before |-> [handshake |-> [auth |-> c.auth, request |-> NoRequest],
                 api |-> [auth |-> c.auth, request |-> NoRequest]],
     started |-> [handshake |-> c.auth, api |-> c.auth],
     signed_under |-> [handshake |-> NoCredentials, api |-> NoCredentials],
     verifier_sent |-> FALSE,
     verifier_done |-> FALSE,
     resend |-> [sent |-> FALSE, done |-> FALSE],
     calls |-> [handshake |-> 0, api |-> 0],
     outcome |-> [handshake |-> NoResponse, api |-> NoResponse],
     constructed |-> [oauth_token |-> c.auth.token,
                      oauth_token_secret |-> c.auth.token_secret],
     kwargs |-> args.kwargs]

\* a call on frame f has just run up to its suspension (or raised): c -> c2
HistoryOnCall(h, c, c2, f, req) ==
    LET sent == c2[f].nsent > 0
        access == f = "handshake" /\ c2[f].op = "fetch_access_token"
        installs == access /\ Truthy(c2[f].verifier_arg)
        was_sent == IF installs THEN FALSE ELSE h.verifier_sent
        was_done == IF installs THEN FALSE ELSE h.verifier_done
    IN  [h EXCEPT
           !.calls[f] = h.calls[f] + 1,
           !.outcome[f] = NoResponse,
           !.before[f] = [auth |-> c.auth, request |-> req],
           !.started[f] = c2.auth,
           !.signed_under[f] = IF sent THEN h.issued ELSE NoCredentials,
           !.verifier_sent = IF access /\ sent THEN TRUE ELSE was_sent,
           !.verifier_done = was_done,
           !.resend = IF f = "handshake"
                      THEN (IF access /\ sent
                            THEN [sent |-> was_sent, done |-> was_done]
                            ELSE [sent |-> FALSE, done |-> FALSE])
                      ELSE h.resend]

\* the call on frame f has just continued with the transport's outcome: c -> c2
HistoryOnReturn(h, c, c2, f, outcome) ==
    LET ok == f = "handshake" /\ c2[f].pc = "returned"
    IN  [h EXCEPT
           !.outcome[f] = outcome,
           !.issued = IF ok
                      THEN [oauth_token |-> FormValue(outcome.text, "oauth_token"),
                            oauth_token_secret |->
                                FormValue(outcome.text, "oauth_token_secret")]
                      ELSE h.issued,
           !.verifier_done = IF ok /\ c2[f].op = "fetch_access_token"
                             THEN TRUE ELSE h.verifier_done]

-----------------------------------------------------------------------------
(* Construction                                                            *)

\* bounds on the calls started on one client
MaxHandshakeCalls == 2
MaxApiCalls == 1

\* no keyword for the httpx client: verify and app are both absent
NoKwargs == [verify |-> NoneV, app |-> NoneV]

\* client credentials only; with a token from an earlier session and with a
\* verifier; the other signature placements; no client secret; a signature
\* method that does not exist; keywords for
\* the httpx client (verify given as True or False, app given)
ConstructorArgs ==
    [client_id : {"ck"}, client_secret : {"cs"},
     token : {NoneV}, token_secret : {NoneV},
     verifier : {NoneV, "v0"},
     signature_method : {SIGNATURE_HMAC_SHA1},
     signature_type : {SIGNATURE_TYPE_HEADER},
     kwargs : {NoKwargs}]
    \cup
    [client_id : {"ck"}, client_secret : {"cs"},
     token : {"t0"}, token_secret : {"ts0"},
     verifier : {NoneV, "v0"},
     signature_method : {SIGNATURE_HMAC_SHA1},
     signature_type : {SIGNATURE_TYPE_HEADER},
     kwargs : {NoKwargs}]
    \cup
    [client_id : {"ck"}, client_secret : {"cs"},
     token : {NoneV}, token_secret : {NoneV},
     verifier : {NoneV},
     signature_method : {SIGNATURE_HMAC_SHA1},
     signature_type : {SIGNATURE_TYPE_QUERY, SIGNATURE_TYPE_BODY},
     kwargs : {NoKwargs}]
    \cup
    [client_id : {"ck"}, client_secret : {NoneV},
     token : {NoneV}, token_secret : {NoneV},
     verifier : {"v0"},
     signature_method : {SIGNATURE_HMAC_SHA1},
     signature_type : {SIGNATURE_TYPE_HEADER},
     kwargs : {NoKwargs}]
    \cup
    [client_id : {"ck"}, client_secret : {"cs"},
     token : {NoneV}, token_secret : {NoneV},
     verifier : {"v0"},
     signature_method : {"PLAINTEXT-SHA9"},
     signature_type : {SIGNATURE_TYPE_HEADER},
     kwargs : {NoKwargs}]
    \cup
    [client_id : {"ck"}, client_secret : {"cs"},
     token : {NoneV}, token_secret : {NoneV},
     verifier : {NoneV},
     signature_method : {SIGNATURE_HMAC_SHA1},
     signature_type : {SIGNATURE_TYPE_HEADER},
     kwargs : {[verify |-> "True", app |-> NoneV], [verify |-> "False", app |-> NoneV],
               [verify |-> NoneV, app |-> "app"]}]

Construct(mode, args) ==
    IF mode = "async" THEN AsyncOAuth1Client_init(args) ELSE OAuth1Client_init(args)

\* one client, of either class
Init ==
    \E mode \in Modes, args \in ConstructorArgs :
        /\ clients = (mode :> Construct(mode, args))
        /\ hist = (mode :> NewHistory(Construct(mode, args), args))

\* one client of each class, constructed with the same arguments
InitBoth ==
    \E args \in ConstructorArgs :
        /\ clients = [mode \in Modes |-> Construct(mode, args)]
        /\ hist = [mode \in Modes |-> NewHistory(Construct(mode, args), args)]

-----------------------------------------------------------------------------
(* Actions. Each applies to every client there is: the one client of Init, *)
(* or the two of InitBoth, which are then driven by the same calls and the *)
(* same transport outcomes.                                                *)

Live == DOMAIN clients

\* outcomes of a request to the protected API
ApiOutcomes == {o \in Outcomes : o.kind = "raise" \/ o.text = << <<"<html>oops</html>">> >>}

\* no call is in progress on frame f of client m, and the bound allows one more
CanCall(m, f, max) == clients[m][f].pc # "awaiting" /\ hist[m].calls[f] < max

FetchRequestToken ==
    /\ \A m \in Live : CanCall(m, "handshake", MaxHandshakeCalls)
    /\ \E rnd \in Entropy :
         /\ clients' = [m \in Live |-> CallFetchRequestToken(clients[m], rnd)]
         /\ hist' = [m \in Live |->
                       HistoryOnCall(hist[m], clients[m], clients'[m], "handshake",
                                     PostRequest(RequestTokenUrl))]

FetchAccessToken ==
    /\ \A m \in Live : CanCall(m, "handshake", MaxHandshakeCalls)
    /\ \E verifier \in VerifierArgs, rnd \in Entropy :
         /\ clients' = [m \in Live |-> CallFetchAccessToken(clients[m], verifier, rnd)]
         /\ hist' = [m \in Live |->
                       HistoryOnCall(hist[m], clients[m], clients'[m], "handshake",
                                     PostRequest(AccessTokenUrl))]

TokenEndpointAnswers ==
    /\ \A m \in Live : clients[m].handshake.pc = "awaiting"
    /\ \E outcome \in Outcomes :
         /\ clients' = [m \in Live |-> ResumeHandshake(clients[m], outcome)]
         /\ hist' = [m \in Live |->
                       HistoryOnReturn(hist[m], clients[m], clients'[m], "handshake",
                                       outcome)]

Request ==
    /\ \A m \in Live : CanCall(m, "api", MaxApiCalls)
    /\ \E req \in ApiRequests, rnd \in Entropy :
         /\ clients' = [m \in Live |-> request(clients[m], req, rnd)]
         /\ hist' = [m \in Live |->
                       HistoryOnCall(hist[m], clients[m], clients'[m], "api", req)]

ApiAnswers ==
    /\ \A m \in Live : clients[m].api.pc = "awaiting"
    /\ \E outcome \in ApiOutcomes :
         /\ clients' = [m \in Live |-> request_return(clients[m], outcome)]
         /\ hist' = [m \in Live |->
                       HistoryOnReturn(hist[m], clients[m], clients'[m], "api", outcome)]

Next ==
    \/ FetchRequestToken
    \/ FetchAccessToken
    \/ TokenEndpointAnswers
    \/ Request
    \/ ApiAnswers

Spec == Init /\ [][Next]_vars

SpecBoth == InitBoth /\ [][Next]_vars

-----------------------------------------------------------------------------
(* Properties                                                              *)

Frames == {"handshake", "api"}

\* the handshake call of client m, in progress or last finished
Handshake(m) == clients[m].handshake

\* the auth object of client m when that call started
AuthBefore(m) == hist[m].before.handshake.auth

\* client m holds the token credentials it held when the handshake call started
TokenUntouched(m) ==
    /\ clients[m].auth.token = AuthBefore(m).token
    /\ clients[m].auth.token_secret = AuthBefore(m).token_secret

\* the handshake call of client m got a response from the token endpoint
Answered(m) == Handshake(m).response.kind = "response"

\* C1: fetch_access_token with no verifier argument on a client that holds no
\* verifier raises missing_verifier before the signer is started or anything
\* is handed to the transport, and the token credentials stay as they were.
C1_MissingVerifier ==
    \A m \in Live :
        (/\ Handshake(m).op = "fetch_access_token"
         /\ Handshake(m).verifier_arg = NoneV
         /\ ~Truthy(AuthBefore(m).verifier))
        => /\ Handshake(m).pc = "raised"
           /\ Handshake(m).raised.error = MissingVerifier
           /\ Handshake(m).gen = "none"
           /\ Handshake(m).nsent = 0
           /\ Handshake(m).wire = NoRequest
           /\ TokenUntouched(m)

C1_Witness ==
    \E m \in Live :
        /\ Handshake(m).op = "fetch_access_token"
        /\ Handshake(m).verifier_arg = NoneV
        /\ AuthBefore(m).verifier = NoneV
        /\ AuthBefore(m).token = "rt"
        /\ Handshake(m).raised.error = MissingVerifier

\* C2: when fetch_access_token has returned, the client holds no verifier,
\* whether the verifier came with the call or was held before it.
C2_VerifierCleared ==
    \A m \in Live :
        (Handshake(m).op = "fetch_access_token" /\ Handshake(m).pc = "returned")
        => clients[m].auth.verifier = NoneV

C2_Witness ==
    \E m \in Live :
        /\ Handshake(m).op = "fetch_access_token"
        /\ Handshake(m).pc = "returned"
        /\ ~Truthy(Handshake(m).verifier_arg)
        /\ AuthBefore(m).verifier = "v0"
        /\ Handshake(m).oauth.oauth_verifier = "v0"

\* a fetch_access_token call without a verifier argument has signed and sent
\* a request
SentHeldVerifier(m) ==
    /\ Handshake(m).op = "fetch_access_token"
    /\ ~Truthy(Handshake(m).verifier_arg)
    /\ Handshake(m).nsent > 0

\* C3 as stated: a verifier that has been signed into and sent with an
\* access-token request is never sent again by a later call without a
\* verifier argument.
C3_NeverResent ==
    \A m \in Live : SentHeldVerifier(m) => ~hist[m].resend.sent

\* C3 as amended: a verifier sent by a fetch_access_token call that returned is
\* no longer held, and no later call without a verifier argument sends it.
C3_SingleUseOnSuccess ==
    \A m \in Live :
        /\ SentHeldVerifier(m) => ~hist[m].resend.done
        /\ hist[m].verifier_done => clients[m].auth.verifier = NoneV

C3_Witness ==
    \E m \in Live :
        /\ hist[m].verifier_done
        /\ hist[m].calls.handshake = 2
        /\ Handshake(m).op = "fetch_access_token"
        /\ ~Truthy(Handshake(m).verifier_arg)
        /\ Handshake(m).pc = "raised"
        /\ Handshake(m).nsent = 0

\* C4: when fetch_access_token has returned, the token credentials are the
\* oauth_token and oauth_token_secret of the response and no verifier is held.
C4_AccessTokenStored ==
    \A m \in Live :
        (Handshake(m).op = "fetch_access_token" /\ Handshake(m).pc = "returned")
        => /\ Answered(m)
           /\ clients[m].auth.token # NoneV
           /\ clients[m].auth.token_secret # NoneV
           /\ clients[m].auth.token = FormValue(Handshake(m).response.text, "oauth_token")
           /\ clients[m].auth.token_secret =
                  FormValue(Handshake(m).response.text, "oauth_token_secret")
           /\ clients[m].auth.verifier = NoneV

\* the end-to-end scenario: request token {rt, rts}, then verifier v1 and
\* access token {at, ats}
C4_Witness ==
    \E m \in Live :
        /\ Handshake(m).op = "fetch_access_token"
        /\ Handshake(m).pc = "returned"
        /\ Handshake(m).verifier_arg = "v1"
        /\ AuthBefore(m).token = "rt"
        /\ AuthBefore(m).token_secret = "rts"
        /\ AuthBefore(m).verifier = NoneV
        /\ clients[m].auth.token = "at"
        /\ clients[m].auth.token_secret = "ats"
        /\ clients[m].auth.verifier = NoneV

\* the response the handshake call of m got lacks a token field
Incomplete(m) ==
    /\ Answered(m)
    /\ \/ FormValue(Handshake(m).response.text, "oauth_token") = NoneV
       \/ FormValue(Handshake(m).response.text, "oauth_token_secret") = NoneV

\* C5 as stated: a token fetch whose response lacks oauth_token or
\* oauth_token_secret raises missing_token and stores nothing.
C5_IncompleteIsMissingToken ==
    \A m \in Live :
        Incomplete(m)
        => /\ Handshake(m).pc = "raised"
           /\ Handshake(m).raised.error = MissingToken
           /\ TokenUntouched(m)

\* C5 as amended: such a response raises missing_token when its status is a
\* success and it carries no error payload, remote_oauth_error otherwise, and
\* is stored in neither case.
C5_IncompleteRaises ==
    \A m \in Live :
        Incomplete(m)
        => /\ Handshake(m).pc = "raised"
           /\ Handshake(m).raised.error =
                  (IF /\ IsSuccess(Handshake(m).response.status_code)
                      /\ FormValue(Handshake(m).response.text, "error") = NoneV
                   THEN MissingToken ELSE RemoteOAuthError)
           /\ TokenUntouched(m)

C5_Witness ==
    \E m \in Live :
        /\ Handshake(m).op = "fetch_request_token"
        /\ Handshake(m).response.status_code = 200
        /\ FormValue(Handshake(m).response.text, "oauth_token") = "rt"
        /\ FormValue(Handshake(m).response.text, "oauth_token_secret") = NoneV
        /\ Handshake(m).raised.error = MissingToken
        /\ clients[m].auth.token = NoneV

\* C6: a token fetch whose response has a non-success status raises
\* remote_oauth_error, returns no token and stores nothing.
C6_RemoteError ==
    \A m \in Live :
        (Answered(m) /\ ~IsSuccess(Handshake(m).response.status_code))
        => /\ Handshake(m).pc = "raised"
           /\ Handshake(m).raised.error = RemoteOAuthError
           /\ Handshake(m).token = NoToken
           /\ TokenUntouched(m)

C6_Witness ==
    \E m \in Live :
        /\ Handshake(m).response.status_code = 401
        /\ FormValue(Handshake(m).response.text, "oauth_token") = "at"
        /\ FormValue(Handshake(m).response.text, "oauth_token_secret") = "ats"
        /\ Handshake(m).raised.error = RemoteOAuthError
        /\ clients[m].auth.token = "rt"

\* C7: the signer yields one signed request per outbound request; once a
\* response has been sent into it, it has finished, and the one request it
\* yielded is the only one that went to the transport.
C7_OneRequestPerFlow ==
    \A m \in Live : \A f \in Frames :
        LET call == clients[m][f]
        IN  /\ call.yields <= 1
            /\ call.nsent = call.yields
            /\ call.gen = "suspended" => (call.yields = 1 /\ call.pc = "awaiting")
            /\ call.response.kind = "response"
               => (call.gen = "finished" /\ call.yields = 1 /\ call.pc # "awaiting")

C7_Witness ==
    \E m \in Live : \E f \in Frames :
        /\ clients[m][f].response.status_code = 401
        /\ clients[m][f].gen = "finished"
        /\ clients[m][f].yields = 1

\* the auth object a call on frame f leaves when its request has been signed:
\* fetch_access_token has stored its verifier argument, nothing else changed
AuthAfterSigning(m, f) ==
    LET call == clients[m][f]
        was == hist[m].before[f].auth
    IN  IF call.op = "fetch_access_token" /\ Truthy(call.verifier_arg)
        THEN [was EXCEPT !.verifier = call.verifier_arg]
        ELSE was

C9_SignedWithCurrentToken ==
    \A m \in Live : \A f \in Frames :
        clients[m][f].nsent > 0
        => /\ clients[m][f].oauth.oauth_token = hist[m].signed_under[f].oauth_token
           /\ clients[m][f].oauth.key =
                  clients[m].auth.client_secret \o "&"
                  \o (IF hist[m].signed_under[f].oauth_token_secret = NoneV
                      THEN "" ELSE hist[m].signed_under[f].oauth_token_secret)

\* a request signed with the access token that replaced the request token
C9_Witness ==
    \E m \in Live :
        /\ Handshake(m).op = "fetch_access_token"
        /\ Handshake(m).pc = "returned"
        /\ Handshake(m).oauth.oauth_token = "rt"
        /\ clients[m].api.nsent > 0
        /\ clients[m].api.oauth.oauth_token = "at"
        /\ clients[m].api.oauth.key = "cs&ats"

TransportOutcome(m) == hist[m].outcome.handshake

\* C11: an error in a handshake call ends the call: the call sends at most
\* one request, the first thing the transport does with it (an answer or an
\* exception) ends the call, and an exception of the transport, a timeout or
\* a cancellation, is the exception the call raises.
C11_ErrorsAreFatal ==
    \A m \in Live :
        /\ Handshake(m).nsent <= 1
        /\ Handshake(m).pc = "raised" => Handshake(m).gen # "suspended"
        /\ TransportOutcome(m).kind # "none"
           => (Handshake(m).pc \in {"returned", "raised"} /\ Handshake(m).nsent = 1)
        /\ TransportOutcome(m).kind = "raise"
           => /\ Handshake(m).pc = "raised"
              /\ Handshake(m).raised = TransportOutcome(m).exception
              /\ Handshake(m).raised \in TransportErrors

C11_Witness ==
    \E m \in Live :
        /\ Handshake(m).op = "fetch_access_token"
        /\ TransportOutcome(m).kind = "raise"
        /\ Handshake(m).raised.description = "CancelledError"
        /\ Handshake(m).nsent = 1
        /\ hist[m].calls.handshake = 1

\* the errors signing fails with
SigningErrors == {MissingCredential, InvalidSignatureMethod}

\* signing with this auth object fails: its signature method does not exist,
\* or the secret the method needs is absent
SigningFails(auth) ==
    auth.signature_method \notin SignatureMethods \/ auth.client_secret = NoneV

\* C12: a signing error comes before any network call: a call whose signing
\* failed has yielded no request and sent none, and a client whose signing
\* fails has handed no request at all to the transport.
C12_SigningErrorBeforeSend ==
    \A m \in Live : \A f \in Frames :
        LET call == clients[m][f]
        IN  /\ call.raised.error \in SigningErrors
               => /\ call.pc = "raised"
                  /\ call.yields = 0
                  /\ call.nsent = 0
                  /\ call.wire = NoRequest
                  /\ call.gen = "finished"
                  /\ hist[m].outcome[f] = NoResponse
            /\ SigningFails(clients[m].auth)
               => /\ call.nsent = 0
                  /\ call.wire = NoRequest
                  /\ call.op # "none"
                     => (call.pc = "raised"
                         /\ call.raised.error \in SigningErrors \cup {MissingVerifier})

C12_Witness ==
    \E m \in Live :
        /\ Handshake(m).op = "fetch_request_token"
        /\ Handshake(m).raised.error = InvalidSignatureMethod
        /\ clients[m].api.op = "request"
        /\ clients[m].api.raised.error = InvalidSignatureMethod
        /\ clients[m].api.nsent = 0

\* a call whose signing failed for want of a client secret
C12_WitnessMissingCredential ==
    \E m \in Live :
        /\ Handshake(m).op = "fetch_access_token"
        /\ Handshake(m).raised.error = MissingCredential
        /\ Handshake(m).nsent = 0

\* the handshake call of client m is a fetch_access_token whose request was sent
AccessTokenRequestSent(m) ==
    Handshake(m).op = "fetch_access_token" /\ Handshake(m).nsent > 0

\* C13 as stated: every access-token request is signed with the client
\* credentials, a request token the client holds and a non-empty verifier,
\* and a client that obtained an access token held a token before.
C13_RequestTokenFirst ==
    \A m \in Live :
        AccessTokenRequestSent(m)
        => /\ Handshake(m).oauth.oauth_consumer_key = clients[m].auth.client_id
           /\ Truthy(Handshake(m).oauth.oauth_verifier)
           /\ Handshake(m).oauth.oauth_token # NoneV
           /\ AuthBefore(m).token # NoneV

\* C13: every access-token request that fetch_access_token sends is signed
\* with the client credentials, a non-empty verifier and whatever token the
\* client holds when the call is made: that token when it holds one, no
\* token when it holds none.
C13_SignedWithWhatIsHeld ==
    \A m \in Live :
        AccessTokenRequestSent(m)
        => /\ Handshake(m).oauth.oauth_consumer_key = clients[m].auth.client_id
           /\ Truthy(Handshake(m).oauth.oauth_verifier)
           /\ Handshake(m).oauth.oauth_token =
                  (IF Truthy(AuthBefore(m).token) THEN AuthBefore(m).token ELSE NoneV)
           /\ Handshake(m).oauth.key = SigningKey(AuthBefore(m))

\* a client that never held a token has obtained an access token
C13_Witness ==
    \E m \in Live :
        /\ AccessTokenRequestSent(m)
        /\ hist[m].calls.handshake = 1
        /\ hist[m].constructed = NoCredentials
        /\ Handshake(m).oauth.oauth_token = NoneV
        /\ Handshake(m).oauth.oauth_verifier = "v1"
        /\ Handshake(m).pc = "returned"
        /\ clients[m].auth.token = "at"

\* the verify setting httpx uses when it is given none
DefaultVerify == "True"

\* C14: certificate verification is strict unless the caller opts out: a
\* client constructed without a verify keyword has verification enabled, and
\* a verify keyword given to the constructor is the setting the transport is
\* created with.
C14_StrictVerification ==
    \A m \in Live :
        clients[m].http.verify =
            (IF hist[m].kwargs.verify = NoneV THEN DefaultVerify
             ELSE hist[m].kwargs.verify)

\* the token credentials an endpoint can issue: the pairs of the responses
\* that carry both fields
IssuedCredentials ==
    {[oauth_token |-> FormValue(t, "oauth_token"),
      oauth_token_secret |-> FormValue(t, "oauth_token_secret")] : t \in
        {t \in ResponseTexts : /\ FormValue(t, "oauth_token") # NoneV
                               /\ FormValue(t, "oauth_token_secret") # NoneV}}

\* every TokenCredentials client m can have held
TokenCredentialsOf(m) == {hist[m].constructed} \cup IssuedCredentials

C16_ContentLengthOfSignedBody ==
    \A m \in Live : \A f \in Frames :
        clients[m][f].nsent > 0
        => clients[m][f].wire.headers.ContentLength =
               ToString(Len(clients[m][f].wire.content))

\* a form body the protocol parameters were appended to
C16_Witness ==
    \E m \in Live :
        /\ clients[m].auth.signature_type = SIGNATURE_TYPE_BODY
        /\ clients[m].api.nsent > 0
        /\ clients[m].api.request.content = "a=1"
        /\ clients[m].api.request.headers.ContentLength = "3"
        /\ Len(clients[m].api.wire.content) > 3
        /\ clients[m].api.wire.headers.ContentLength # "3"

\* a request sent with an empty body
C16_WitnessEmptyBody ==
    \E m \in Live : \E f \in Frames :
        /\ clients[m][f].nsent > 0
        /\ clients[m][f].wire.content = ""
        /\ clients[m][f].wire.headers.ContentLength = "0"

\* C17: a token fetch that fails, at whatever point (signing, transport
\* error, failure status, error payload, incomplete token), leaves the token
\* and the token secret of the client as they were when the call started; a
\* failed fetch_access_token leaves the request token in place.
C17_FailedFetchKeepsToken ==
    \A m \in Live :
        Handshake(m).pc = "raised"
        => /\ TokenUntouched(m)
           /\ Handshake(m).token = NoToken

\* a fetch_access_token that the transport failed: the request token stays
C17_Witness ==
    \E m \in Live :
        /\ Handshake(m).op = "fetch_access_token"
        /\ Handshake(m).pc = "raised"
        /\ Handshake(m).raised \in TransportErrors
        /\ AuthBefore(m).token = "rt"
        /\ clients[m].auth.token = "rt"
        /\ clients[m].auth.token_secret = "rts"

\* a fetch_access_token that the endpoint answered with a token it did not
\* complete: the request token stays
C17_WitnessParsing ==
    \E m \in Live :
        /\ Handshake(m).op = "fetch_access_token"
        /\ Handshake(m).pc = "raised"
        /\ Handshake(m).raised.error = MissingToken
        /\ clients[m].auth.token = "rt"
        /\ clients[m].auth.token_secret = "rts"

\* C18: a non-empty verifier argument of fetch_access_token replaces the
\* verifier the client holds and is the one the request is signed with; with
\* an absent or empty argument the held verifier is used; an empty argument
\* with no verifier held fails with MissingVerifier as an absent one does.
C18_VerifierArgument ==
    \A m \in Live :
        LET call == Handshake(m)
            arg == call.verifier_arg
            held == AuthBefore(m).verifier
            used == IF Truthy(arg) THEN arg ELSE held
        IN  call.op = "fetch_access_token"
            => /\ Truthy(used)
                  => /\ hist[m].started.handshake.verifier = used
                     /\ call.raised.error # MissingVerifier
                     /\ call.nsent > 0 => call.oauth.oauth_verifier = used
                     /\ ~SigningFails(clients[m].auth) => call.nsent = 1
               /\ ~Truthy(used)
                  => /\ call.pc = "raised"
                     /\ call.raised.error = MissingVerifier
                     /\ call.nsent = 0

\* an argument that differs from the verifier held
C18_Witness ==
    \E m \in Live :
        /\ Handshake(m).op = "fetch_access_token"
        /\ Handshake(m).verifier_arg = "v1"
        /\ AuthBefore(m).verifier = "v0"
        /\ Handshake(m).nsent = 1
        /\ Handshake(m).oauth.oauth_verifier = "v1"

\* an empty argument: the held verifier is sent
C18_WitnessEmptyArgument ==
    \E m \in Live :
        /\ Handshake(m).op = "fetch_access_token"
        /\ Handshake(m).verifier_arg = ""
        /\ AuthBefore(m).verifier = "v0"
        /\ Handshake(m).oauth.oauth_verifier = "v0"

\* an empty argument and no verifier held
C18_WitnessEmptyMissing ==
    \E m \in Live :
        /\ Handshake(m).op = "fetch_access_token"
        /\ Handshake(m).verifier_arg = ""
        /\ AuthBefore(m).verifier = NoneV
        /\ Handshake(m).raised.error = MissingVerifier

====
